---- MODULE Spec2Model ----
(***************************************************************************)
(* anchr: webhook relay.  The server side (WebhookReceiver, WebSocketServer *)
(* wired by AnchrServer), the subscriber session (WebSocketClient over     *)
(* socket.io-client), the CLI event intake (AnchrCLI.handleEvent) and the  *)
(* EventForwarder, each as a state machine over shared variables.          *)
(*                                                                         *)
(*   Spec         the server: handleWebhook, the Hub's connection, ping    *)
(*                and disconnect handlers, broadcastEvent, and the         *)
(*                subscribers' transports that consume what is pushed      *)
(*   SpecFwd      EventForwarder.forwardEvent / forwardToEndpoint          *)
(*   SpecCli      AnchrCLI.handleEvent on events received from the Hub     *)
(*   SpecSession  WebSocketClient.connect / disconnect and the transport   *)
(*                events its handlers react to                             *)
(*                                                                         *)
(* Strings that the code inspects character by character (header names,    *)
(* endpoint paths) are sequences of one-character strings; opaque strings  *)
(* (header values, URLs, messages) are TLA+ strings.                       *)
(***************************************************************************)
EXTENDS Naturals, Integers, Sequences, FiniteSets, TLC

VARIABLES
    \* ---- server (src/src/server/websocket.ts, src/src/server/index.ts)
    sockets,        \* Hub: the sockets accepted so far, [owner, open]; id = index
    pushed,         \* per socket: every packet the Hub emitted to it, in order, and
                    \* whether the subscriber's transport was there to take it
    clientSock,     \* per subscriber process: the socket its transport is attached to, or 0
    stats,          \* WebSocketServer.stats
    clock,          \* the server's wall clock (Date.now())
    http,           \* per handled POST: the request, what was sent and called, in order
    nextId,         \* uuid source: the next fresh event id
    \* ---- EventForwarder (src/src/cli/index.ts 264-360)
    endpoints,      \* EventForwarder.endpoints
    calls,          \* the forwardEvent calls started so far
    posts,          \* per forwardEvent call: every axios.post it issued, in order
    edits,          \* every addEndpoint/removeEndpoint/setEndpoints call: the list before and after
    \* ---- AnchrCLI.handleEvent (src/src/cli/index.ts 153-179)
    subscribeEndpoints, \* config.subscribeEndpoints
    handled,        \* per event passed to handleEvent: the event and what happened
    cliAlive,       \* the CLI process is running
    \* ---- WebSocketClient (src/src/server/index.ts 165-306)
    config,         \* ClientConfig.maxRetries
    sess,           \* this.socket, this.status, this.reconnectAttempts, the connect() promise
    statusCalls,    \* every snapshot handed to the status callback, in order
    mgr,            \* the socket.io-client Manager/Socket behind this.socket
    oplog           \* what was asked of the session and what its transport did, in order

hubVars  == <<sockets, pushed, clientSock, stats, clock, http, nextId>>
fwdVars  == <<endpoints, calls, posts, edits>>
cliVars  == <<subscribeEndpoints, handled, cliAlive>>
sessVars == <<config, sess, statusCalls, mgr, oplog>>
vars     == <<hubVars, fwdVars, cliVars, sessVars>>

\* ------------------------------------------------------------------ bounds
MaxSockets  == 2    \* sockets the Hub accepts in one run
MaxRequests == 2    \* POSTs handled in one run
MaxClock    == 1    \* ticks of the server clock
MaxPings    == 1    \* pings answered in one run
MaxTargets  == 2    \* forward targets configured
MaxCalls    == 2    \* forwardEvent calls started in one run

\* ------------------------------------------------------------------ values
Undefined == "undefined"
Range(s) == {s[i] : i \in DOMAIN s}

\* ---- characters: String.prototype.toLowerCase, startsWith
UpperChars == <<"A","B","C","D","E","F","G","H","I","J","K","L","M",
                "N","O","P","Q","R","S","T","U","V","W","X","Y","Z">>
LowerChars == <<"a","b","c","d","e","f","g","h","i","j","k","l","m",
                "n","o","p","q","r","s","t","u","v","w","x","y","z">>

UpperSet == {UpperChars[i] : i \in DOMAIN UpperChars}
LowerTable == [c \in UpperSet |-> LowerChars[CHOOSE i \in DOMAIN UpperChars : UpperChars[i] = c]]

LowerChar(c) == IF c \in UpperSet THEN LowerTable[c] ELSE c

ToLowerCase(s) == [i \in DOMAIN s |-> LowerChar(s[i])]

\* ---- header names and endpoint paths, spelled out
N_authorization == <<"a","u","t","h","o","r","i","z","a","t","i","o","n">>
N_cookie        == <<"c","o","o","k","i","e">>
N_x_api_key     == <<"x","-","a","p","i","-","k","e","y">>
N_x_auth_token  == <<"x","-","a","u","t","h","-","t","o","k","e","n">>
N_content_type  == <<"c","o","n","t","e","n","t","-","t","y","p","e">>
N_user_agent    == <<"u","s","e","r","-","a","g","e","n","t">>
N_x_forwarded_for == <<"x","-","f","o","r","w","a","r","d","e","d","-","f","o","r">>
N_x_api_keys    == <<"x","-","a","p","i","-","k","e","y","s">>
N_auth          == <<"a","u","t","h">>

P_github       == <<"/","g","i","t","h","u","b">>
P_stripe       == <<"/","s","t","r","i","p","e">>
P_stripe_extra == <<"/","s","t","r","i","p","e","/","e","x","t","r","a">>
P_other        == <<"/","o","t","h","e","r">>
P_api_users    == <<"/","a","p","i","/","u","s","e","r","s">>
P_api          == <<"/","a","p","i">>
P_gi           == <<"/","g","i">>
P_git          == <<"/","g","i","t">>
P_root         == <<"/">>

RedactedMarker == "[REDACTED]"

\* ------------------------------------------------------------------ Event model
Subs == {"u1", "u2"}    \* subscriber processes

\* new Date() at server time t; Date.prototype.toISOString / toJSON turns it
\* into text, and text has no toISOString.
DateAt(t) == [kind |-> "Date", ms |-> t]
IsDate(ts) == ts.kind = "Date"
toISOString(ts) == [kind |-> "String", ms |-> ts.ms]

\* JSON.stringify of what socket.emit / io.emit is given: a Date leaves as
\* its ISO text (Date.prototype.toJSON), everything else keeps its value.
JsonEvent(event) == [event EXCEPT !.timestamp = toISOString(@)]

Includes(seq, x) == \E i \in DOMAIN seq : seq[i] = x

sensitiveHeaders == <<N_authorization, N_cookie, N_x_api_key, N_x_auth_token>>

sanitizeHeaders_noCookie(headers) ==
    [key \in DOMAIN headers |->
        IF Includes(<<N_authorization, N_x_api_key, N_x_auth_token>>, ToLowerCase(key))
        THEN RedactedMarker
        ELSE headers[key]]

sanitizeHeaders(headers) ==
    [key \in DOMAIN headers |->
        IF Includes(sensitiveHeaders, ToLowerCase(key))
        THEN RedactedMarker
        ELSE headers[key]]

createWebhookEvent(source, endpoint, headers, body, method, ip, userAgent, id, now) ==
    [id |-> id, timestamp |-> DateAt(now), source |-> source, endpoint |-> endpoint,
     headers |-> headers, body |-> body, method |-> method, ip |-> ip,
     userAgent |-> userAgent]

\* ------------------------------------------------------------------ requests
\* Inbound POSTs as express hands them over: header names already lowercased
\* by node's http parser, req.body set by express.json() / urlencoded(), or
\* left undefined when neither parser took the body.
Requests ==
    { [path |-> P_github, method |-> "POST", ip |-> "10.0.0.1", body |-> "push",
       headers |-> (N_authorization :> "Bearer s3cret" @@ N_cookie :> "sid=42"
                    @@ N_x_api_key :> "k-1" @@ N_x_auth_token :> "t-1"
                    @@ N_content_type :> "application/json" @@ N_user_agent :> "curl"
                    @@ N_x_api_keys :> "plural" @@ N_auth :> "short")],
      [path |-> P_api_users, method |-> "POST", ip |-> Undefined, body |-> Undefined,
       headers |-> (N_content_type :> "text/plain" @@ N_x_forwarded_for :> "203.0.113.9")] }

\* req.get(name): case-insensitive header lookup
reqGet(req, name) ==
    IF ToLowerCase(name) \in DOMAIN req.headers THEN req.headers[ToLowerCase(name)] ELSE Undefined

\* a || b || c on strings/undefined
OrElse(a, b) == IF a # Undefined /\ a # "" THEN a ELSE b

\* ------------------------------------------------------------------ WebhookReceiver
\* What one handleWebhook call does, in order: responses sent (kind "res")
\* and the event callback invoked (kind "callback").
\* JSON.stringify(undefined) is undefined, so the logger line's ".length"
\* throws when there is no body: the catch answers 500.
handleWebhook_callbackFirst(req, id, now) ==
    LET source == OrElse(reqGet(req, <<"X","-","F","o","r","w","a","r","d","e","d","-","F","o","r">>),
                         OrElse(req.ip, "unknown"))
        userAgent == reqGet(req, <<"U","s","e","r","-","A","g","e","n","t">>)
        event == createWebhookEvent(source, req.path, sanitizeHeaders(req.headers),
                                    req.body, req.method, source, userAgent, id, now)
    IN  IF req.body = Undefined
        THEN << [kind |-> "res", status |-> 500, success |-> FALSE,
                 error |-> "Internal server error"] >>
        ELSE << [kind |-> "callback", event |-> event],
                [kind |-> "res", status |-> 200, success |-> TRUE,
                 eventId |-> event.id, timestamp |-> toISOString(event.timestamp)] >>

\* the callback is notified on the failure path as well
handleWebhook_callbackOnFailure(req, id, now) ==
    LET source == OrElse(reqGet(req, <<"X","-","F","o","r","w","a","r","d","e","d","-","F","o","r">>),
                         OrElse(req.ip, "unknown"))
        userAgent == reqGet(req, <<"U","s","e","r","-","A","g","e","n","t">>)
        headers == sanitizeHeaders(req.headers)
        event == createWebhookEvent(source, req.path, headers, req.body, req.method,
                                    source, userAgent, id, now)
    IN  IF req.body = Undefined
        THEN << [kind |-> "res", status |-> 500, success |-> FALSE,
                 error |-> "Internal server error"],
                [kind |-> "callback", event |-> event] >>
        ELSE << [kind |-> "res", status |-> 200, success |-> TRUE,
                 eventId |-> event.id, timestamp |-> toISOString(event.timestamp)],
                [kind |-> "callback", event |-> event] >>

handleWebhook(req, id, now) ==
    LET source == OrElse(reqGet(req, <<"X","-","F","o","r","w","a","r","d","e","d","-","F","o","r">>),
                         OrElse(req.ip, "unknown"))
        userAgent == reqGet(req, <<"U","s","e","r","-","A","g","e","n","t">>)
        headers == sanitizeHeaders(req.headers)
        event == createWebhookEvent(source, req.path, headers, req.body, req.method,
                                    source, userAgent, id, now)
    IN  IF req.body = Undefined
        THEN << [kind |-> "res", status |-> 500, success |-> FALSE,
                 error |-> "Internal server error"] >>
        ELSE << [kind |-> "res", status |-> 200, success |-> TRUE,
                 eventId |-> event.id, timestamp |-> toISOString(event.timestamp)],
                [kind |-> "callback", event |-> event] >>

\* the events a handleWebhook call handed to the callback
CallbackEvents(out) ==
    LET idx == {i \in DOMAIN out : out[i].kind = "callback"}
    IN  {out[i].event : i \in idx}

\* ------------------------------------------------------------------ WebSocketServer
StatsInit == [totalEvents |-> 0, activeConnections |-> 0, uptime |-> 0, lastEvent |-> Undefined]
startTime == 0

\* uptime counted the wrong way round
getStats_backwards(st, now) == [st EXCEPT !.uptime = startTime - now]

getStats(st, now) == [st EXCEPT !.uptime = now - startTime]

\* A packet written to a socket reaches the subscriber when its transport is
\* attached to that socket, and is lost otherwise.
Packet(type, data, socks, attached, s) ==
    [type |-> type, data |-> data, got |-> (attached[socks[s].owner] = s)]

\* io.emit(name, data): one packet to every socket the server holds open
ioEmit_skipFirst(socks, out, attached, type, data) ==
    [s \in DOMAIN out |->
        IF socks[s].open /\ s # 1
        THEN Append(out[s], Packet(type, data, socks, attached, s))
        ELSE out[s]]

ioEmit_toClosed(socks, out, attached, type, data) ==
    [s \in DOMAIN out |-> Append(out[s], Packet(type, data, socks, attached, s))]

ioEmit(socks, out, attached, type, data) ==
    [s \in DOMAIN out |->
        IF socks[s].open
        THEN Append(out[s], Packet(type, data, socks, attached, s))
        ELSE out[s]]

\* broadcastEvent counts one event per connected subscriber
broadcastStats_perSubscriber(st, event) ==
    [st EXCEPT !.totalEvents = @ + st.activeConnections, !.lastEvent = event.timestamp]

broadcastStats(st, event) ==
    [st EXCEPT !.totalEvents = @ + 1, !.lastEvent = event.timestamp]

\* setupEventHandling's callback: this.wsServer.broadcastEvent(event)
Broadcast(events) ==
    IF events = {}
    THEN UNCHANGED <<stats, pushed>>
    ELSE LET event == CHOOSE e \in events : TRUE
         IN  /\ stats' = broadcastStats(stats, event)
             /\ pushed' = ioEmit(sockets, pushed, clientSock, "webhook", JsonEvent(event))

HandleWebhook(req) ==
    /\ Len(http) < MaxRequests
    /\ LET out == handleWebhook(req, nextId, clock)
       IN  /\ http' = Append(http, [req |-> req, out |-> out])
           /\ Broadcast(CallbackEvents(out))
    /\ nextId' = nextId + 1
    /\ UNCHANGED <<sockets, clientSock, clock>>
    /\ UNCHANGED <<fwdVars, cliVars, sessVars>>

\* io.on('connection'): a subscriber's transport completes its handshake
Connection(u) ==
    /\ Len(sockets) < MaxSockets
    /\ clientSock[u] = 0
    /\ LET st == [stats EXCEPT !.activeConnections = @ + 1]
       IN  /\ stats' = st
           /\ pushed' = Append(pushed, << [type |-> "stats", data |-> getStats(st, clock),
                                             got |-> TRUE] >>)
    /\ sockets' = Append(sockets, [owner |-> u, open |-> TRUE])
    /\ clientSock' = [clientSock EXCEPT ![u] = Len(sockets) + 1]
    /\ UNCHANGED <<clock, http, nextId>>
    /\ UNCHANGED <<fwdVars, cliVars, sessVars>>

\* the disconnect handler decrements twice
Disconnect_twice(s) ==
    /\ sockets[s].open
    /\ sockets' = [sockets EXCEPT ![s].open = FALSE]
    /\ stats' = [stats EXCEPT !.activeConnections = @ - 2]
    /\ UNCHANGED <<pushed, clientSock, clock, http, nextId>>
    /\ UNCHANGED <<fwdVars, cliVars, sessVars>>

\* socket.on('disconnect') at the server
Disconnect(s) ==
    /\ sockets[s].open
    /\ sockets' = [sockets EXCEPT ![s].open = FALSE]
    /\ stats' = [stats EXCEPT !.activeConnections = @ - 1]
    /\ UNCHANGED <<pushed, clientSock, clock, http, nextId>>
    /\ UNCHANGED <<fwdVars, cliVars, sessVars>>

\* the subscriber's side of a connection goes away (network drop, process
\* exit); the server notices on its own, later or earlier
ClientDrop(u) ==
    /\ clientSock[u] # 0
    /\ clientSock' = [clientSock EXCEPT ![u] = 0]
    /\ UNCHANGED <<sockets, pushed, stats, clock, http, nextId>>
    /\ UNCHANGED <<fwdVars, cliVars, sessVars>>

Pongs == LET n[s \in 0..Len(pushed)] ==
                 IF s = 0 THEN 0
                 ELSE n[s - 1] + Cardinality({i \in DOMAIN pushed[s] : pushed[s][i].type = "pong"})
         IN  n[Len(pushed)]

\* the reply to a ping; pinged is the socket whose ping handler runs
Pong(pinged, now) ==
    [type |-> "pong", data |-> [timestamp |-> toISOString(DateAt(now))],
     got |-> TRUE, pinged |-> pinged]

\* the ping handler answers on every open socket
Ping_broadcast(s) ==
    /\ sockets[s].open
    /\ clientSock[sockets[s].owner] = s
    /\ Pongs < MaxPings
    /\ pushed' = [t \in DOMAIN pushed |->
                     IF sockets[t].open THEN Append(pushed[t], Pong(s, clock))
                     ELSE pushed[t]]
    /\ UNCHANGED <<sockets, clientSock, stats, clock, http, nextId>>
    /\ UNCHANGED <<fwdVars, cliVars, sessVars>>

\* socket.on('ping'): pong to the same socket
Ping(s) ==
    /\ sockets[s].open
    /\ clientSock[sockets[s].owner] = s
    /\ Pongs < MaxPings
    /\ pushed' = [pushed EXCEPT ![s] = Append(@, Pong(s, clock))]
    /\ UNCHANGED <<sockets, clientSock, stats, clock, http, nextId>>
    /\ UNCHANGED <<fwdVars, cliVars, sessVars>>

Tick ==
    /\ clock < MaxClock
    /\ clock' = clock + 1
    /\ UNCHANGED <<sockets, pushed, clientSock, stats, http, nextId>>
    /\ UNCHANGED <<fwdVars, cliVars, sessVars>>

\* startStatsUpdate's interval callback
StatsUpdate ==
    /\ stats.uptime # clock - startTime
    /\ stats' = [stats EXCEPT !.uptime = clock - startTime]
    /\ UNCHANGED <<sockets, pushed, clientSock, clock, http, nextId>>
    /\ UNCHANGED <<fwdVars, cliVars, sessVars>>

\* ------------------------------------------------------------------ idle components
FwdIdle  == endpoints = <<>> /\ calls = <<>> /\ posts = <<>> /\ edits = <<>>
CliIdle  == subscribeEndpoints = <<>> /\ handled = <<>> /\ cliAlive = TRUE
SessIdle == config = Undefined /\ sess = Undefined /\ statusCalls = <<>>
            /\ mgr = Undefined /\ oplog = <<>>
HubIdle  == /\ sockets = <<>> /\ pushed = <<>>
            /\ clientSock = [u \in Subs |-> 0]
            /\ stats = StatsInit /\ clock = 0 /\ http = <<>> /\ nextId = 1

\* ------------------------------------------------------------------ the server
Init == HubIdle /\ FwdIdle /\ CliIdle /\ SessIdle

Next ==
    \/ \E req \in Requests : HandleWebhook(req)
    \/ \E u \in Subs : Connection(u)
    \/ \E s \in DOMAIN sockets : Disconnect(s)
    \/ \E u \in Subs : ClientDrop(u)

Spec == Init /\ [][Next]_vars

P_stats == <<"/","s","t","a","t","s">>

\* GET /stats: res.json(this.wsServer.getStats())
GetStats ==
    /\ Len(http) < MaxRequests
    /\ http' = Append(http, [req |-> [method |-> "GET", path |-> P_stats],
                             out |-> << [kind |-> "res", status |-> 200,
                                         stats |-> getStats(stats, clock)] >>])
    /\ UNCHANGED <<sockets, pushed, clientSock, stats, clock, nextId>>
    /\ UNCHANGED <<fwdVars, cliVars, sessVars>>

\* The server's connection, keep-alive and broadcast handlers; every
\* subscriber keeps the one connection it opened until the server sees it
\* close.
NextStats ==
    \/ \E req \in Requests : HandleWebhook(req)
    \/ \E u \in Subs : Connection(u)
    \/ \E s \in DOMAIN sockets : Disconnect(s)
    \/ \E s \in DOMAIN sockets : Ping(s)

SpecStats == Init /\ [][NextStats]_vars

\* The server's connection and broadcast handlers with its clock, the
\* statistics interval and the statistics route.
NextUptime ==
    \/ \E req \in Requests : HandleWebhook(req)
    \/ \E u \in Subs : Connection(u)
    \/ \E s \in DOMAIN sockets : Disconnect(s)
    \/ Tick
    \/ StatsUpdate
    \/ GetStats

SpecUptime == Init /\ [][NextUptime]_vars

\* ------------------------------------------------------------------ server: observations
\* the events handleWebhook calls handed to the callback so far
BroadcastEvents == UNION {CallbackEvents(http[i].out) : i \in DOMAIN http}

WebhookAt(s) == {i \in DOMAIN pushed[s] : pushed[s][i].type = "webhook"}

\* the ids of the events subscriber u's transport took off its connections
Received(u) ==
    UNION { {pushed[s][i].data.id : i \in {j \in WebhookAt(s) : pushed[s][j].got}}
            : s \in {t \in DOMAIN sockets : sockets[t].owner = u} }

\* how many webhook packets carrying event id were taken by u's transport
TimesReceived(u, id) ==
    LET own == {t \in DOMAIN sockets : sockets[t].owner = u}
        hits == {<<s, i>> \in UNION {{<<t, j>> : j \in WebhookAt(t)} : t \in own} :
                    pushed[s][i].got /\ pushed[s][i].data.id = id}
    IN  Cardinality(hits)

Connected(u) ==
    \E s \in DOMAIN sockets : sockets[s].owner = u /\ sockets[s].open /\ clientSock[u] = s

\* ------------------------------------------------------------------ C1
\* C1: in every handleWebhook call, the callback is invoked only after the
\* 200 acknowledgment {success, eventId, timestamp} for the same event was sent.
C1_AckBeforeCallback ==
    \A i \in DOMAIN http :
        \A j \in DOMAIN http[i].out :
            http[i].out[j].kind = "callback" =>
                \E k \in 1..(j - 1) :
                    /\ http[i].out[k].kind = "res"
                    /\ http[i].out[k].status = 200
                    /\ http[i].out[k].success = TRUE
                    /\ http[i].out[k].eventId = http[i].out[j].event.id
                    /\ http[i].out[k].timestamp = toISOString(http[i].out[j].event.timestamp)

\* a POST was acknowledged and its event broadcast to a connected subscriber
C1_Witness ==
    \E i \in DOMAIN http :
        /\ Len(http[i].out) = 2
        /\ http[i].out[2].kind = "callback"
        /\ \E s \in DOMAIN pushed : \E p \in WebhookAt(s) :
               pushed[s][p].data.id = http[i].out[2].event.id

\* ------------------------------------------------------------------ C2
\* C2: a broadcastEvent call appends the event, once, to the packets of every
\* socket open at the call and changes the packets of no other socket,
\* whether or not the subscribers behind the sockets take what is pushed.
C2_Step ==
    stats'.totalEvents # stats.totalEvents =>
        /\ DOMAIN pushed' = DOMAIN pushed
        /\ \E e \in CallbackEvents(http'[Len(http')].out) :
             \A s \in DOMAIN pushed :
                IF sockets[s].open
                THEN /\ Len(pushed'[s]) = Len(pushed[s]) + 1
                     /\ SubSeq(pushed'[s], 1, Len(pushed[s])) = pushed[s]
                     /\ pushed'[s][Len(pushed'[s])].type = "webhook"
                     /\ pushed'[s][Len(pushed'[s])].data = JsonEvent(e)
                     /\ \A i \in WebhookAt(s) : pushed[s][i].data.id # e.id
                ELSE pushed'[s] = pushed[s]

C2_BroadcastToOpen == [][C2_Step]_vars

\* two broadcasts reached a responsive subscriber although another socket,
\* open at the Hub, had nobody taking its packets
C2_Witness ==
    \E s \in DOMAIN sockets, t \in DOMAIN sockets :
        /\ s # t
        /\ Cardinality({i \in WebhookAt(s) : ~pushed[s][i].got}) = 2
        /\ Cardinality({i \in WebhookAt(t) : pushed[t][i].got}) = 2

\* ------------------------------------------------------------------ C3
\* C3: what a subscriber newly receives in a step is the event broadcast in
\* that very step, and only when the subscriber was connected before the
\* step; no event is received twice.
C3_Step ==
    \A u \in Subs :
        Received(u)' # Received(u) =>
            /\ Received(u)' = Received(u) \cup {nextId}
            /\ stats'.totalEvents = stats.totalEvents + 1
            /\ Connected(u)
            /\ \E s \in DOMAIN sockets : sockets[s].owner = u /\ sockets[s].open

C3_NoDuplicate ==
    \A u \in Subs : \A id \in 1..nextId : TimesReceived(u, id) <= 1

C3_AtMostOnceNoReplay == [][C3_Step]_vars /\ []C3_NoDuplicate

\* a subscriber that reconnected received the event broadcast afterwards and
\* not the one broadcast while it was away
C3_Witness ==
    \E u \in Subs :
        /\ Cardinality({s \in DOMAIN sockets : sockets[s].owner = u}) = 2
        /\ \E e1 \in BroadcastEvents, e2 \in BroadcastEvents :
              /\ e1.id < e2.id
              /\ e1.id \notin Received(u)
              /\ e2.id \in Received(u)
        /\ \E s \in DOMAIN sockets :
              sockets[s].owner = u /\ ~sockets[s].open /\ WebhookAt(s) = {}

\* ------------------------------------------------------------------ C8
SensitiveName(key) ==
    ToLowerCase(key) \in {N_authorization, N_cookie, N_x_api_key, N_x_auth_token}

\* C8: in every event handed to the callback, and in every packet pushed to
\* a subscriber, a header with a sensitive name carries the redaction marker
\* and every other header the request's value, under the request's keys.
C8_HeadersRedacted ==
    /\ \A i \in DOMAIN http : \A e \in CallbackEvents(http[i].out) :
          /\ DOMAIN e.headers = DOMAIN http[i].req.headers
          /\ \A key \in DOMAIN e.headers :
                IF SensitiveName(key)
                THEN e.headers[key] = "[REDACTED]"
                ELSE e.headers[key] = http[i].req.headers[key]
    /\ \A s \in DOMAIN pushed : \A p \in WebhookAt(s) :
          \A key \in DOMAIN pushed[s][p].data.headers :
              SensitiveName(key) => pushed[s][p].data.headers[key] = "[REDACTED]"

\* a subscriber took an event whose request carried credentials
C8_Witness ==
    \E s \in DOMAIN pushed : \E p \in WebhookAt(s) :
        /\ pushed[s][p].got
        /\ \E i \in DOMAIN http :
              /\ N_authorization \in DOMAIN http[i].req.headers
              /\ http[i].req.headers[N_authorization] = "Bearer s3cret"
              /\ \E e \in CallbackEvents(http[i].out) : e.id = pushed[s][p].data.id
        /\ pushed[s][p].data.headers[N_cookie] = "[REDACTED]"
        /\ pushed[s][p].data.headers[N_content_type] = "application/json"
        /\ pushed[s][p].data.headers[N_x_api_keys] = "plural"

\* ================================================================== EventForwarder
DefaultTimeout == 5000

AllTargets == <<"http://a", "http://b", "http://c", "http://d">>

\* the target lists the constructor is given
TargetLists == {SubSeq(AllTargets, 1, n) : n \in 0..MaxTargets}

\* The events forwardEvent is called with: a WebhookEvent as typed
\* (timestamp a Date), and the same event as it arrives over the socket
\* (JSON-decoded, timestamp its ISO text).
TypedEvent ==
    createWebhookEvent("10.0.0.1", P_github, sanitizeHeaders(N_content_type :> "application/json"),
                       "push", "POST", "10.0.0.1", "curl", 1, 0)
FwdEvents == {TypedEvent, JsonEvent(TypedEvent)}

\* What the network does with one axios.post: an HTTP response with a status,
\* or no response within the timeout.
Outcomes ==
    { [kind |-> "response", status |-> 200, ms |-> 1],
      [kind |-> "response", status |-> 204, ms |-> 1],
      [kind |-> "response", status |-> 404, ms |-> 1],
      [kind |-> "timeout",  status |-> 0,   ms |-> DefaultTimeout] }

\* axios.post(url, data, {timeout, headers}) with axios' default
\* validateStatus: resolves for a 2xx response, throws for any other response
\* and for a timeout.
axiosResolves(outcome) ==
    outcome.kind = "response" /\ outcome.status >= 200 /\ outcome.status < 300

axiosErrorMessage(outcome) ==
    IF outcome.kind = "response"
    THEN <<"Request failed with status code", outcome.status>>
    ELSE <<"timeout of", DefaultTimeout, "ms exceeded">>

TypeErrorMessage == <<"event.timestamp.toISOString is not a function">>

\* the request forwardToEndpoint builds (lines 297-309); building it throws
\* when event.timestamp has no toISOString
PostRequest(event, endpoint) ==
    [url |-> endpoint,
     data |-> [event EXCEPT !.timestamp = toISOString(@)],
     headers |-> [contentType |-> "application/json", eventId |-> event.id,
                  source |-> event.source, endpoint |-> event.endpoint]]

\* forwardToEndpoint's outcome for one target: [thrown, result].  outcome is
\* what the network did with the POST; it is not looked at when building the
\* request already threw.
forwardToEndpoint_noCatch(event, endpoint, outcome) ==
    IF ~IsDate(event.timestamp)
    THEN [thrown |-> TRUE, result |-> [success |-> FALSE, endpoint |-> endpoint]]
    ELSE IF axiosResolves(outcome)
    THEN [thrown |-> FALSE,
          result |-> [success |-> TRUE, endpoint |-> endpoint,
                      statusCode |-> outcome.status, responseTime |-> outcome.ms]]
    ELSE [thrown |-> TRUE, result |-> [success |-> FALSE, endpoint |-> endpoint]]

forwardToEndpoint_firstTarget(event, endpoint, outcome) ==
    IF ~IsDate(event.timestamp)
    THEN [thrown |-> FALSE,
          result |-> [success |-> FALSE, endpoint |-> AllTargets[1],
                      error |-> TypeErrorMessage, responseTime |-> 0]]
    ELSE IF axiosResolves(outcome)
    THEN [thrown |-> FALSE,
          result |-> [success |-> TRUE, endpoint |-> AllTargets[1],
                      statusCode |-> outcome.status, responseTime |-> outcome.ms]]
    ELSE [thrown |-> FALSE,
          result |-> [success |-> FALSE, endpoint |-> AllTargets[1],
                      error |-> axiosErrorMessage(outcome), responseTime |-> outcome.ms]]

forwardToEndpoint(event, endpoint, outcome) ==
    IF ~IsDate(event.timestamp)
    THEN [thrown |-> FALSE,
          result |-> [success |-> FALSE, endpoint |-> endpoint,
                      error |-> TypeErrorMessage, responseTime |-> 0]]
    ELSE IF axiosResolves(outcome)
    THEN [thrown |-> FALSE,
          result |-> [success |-> TRUE, endpoint |-> endpoint,
                      statusCode |-> outcome.status, responseTime |-> outcome.ms]]
    ELSE [thrown |-> FALSE,
          result |-> [success |-> FALSE, endpoint |-> endpoint,
                      error |-> axiosErrorMessage(outcome), responseTime |-> outcome.ms]]

NoOutcome == [kind |-> "none", status |-> 0, ms |-> 0]

\* forwardEvent's loop writing the target it contacts into the event it holds
forwardLoop_stampsEvent(call, eps) ==
    IF call.idx > Len(eps)
    THEN [call EXCEPT !.state = "resolved", !.target = Undefined]
    ELSE [call EXCEPT !.state = "inflight", !.target = eps[call.idx],
                      !.event.source = eps[call.idx]]

\* forwardEvent's loop (lines 279-282) from the target at call.idx on, up to
\* the next suspension on a POST: a target whose request cannot be built is
\* settled on the spot, a rejected forwardToEndpoint rejects forwardEvent,
\* and past the last target the call resolves with its results.
RECURSIVE forwardLoop(_, _)
forwardLoop(call, eps) ==
    IF call.idx > Len(eps)
    THEN [call EXCEPT !.state = "resolved", !.target = Undefined]
    ELSE IF IsDate(call.event.timestamp)
    THEN [call EXCEPT !.state = "inflight", !.target = eps[call.idx]]
    ELSE LET r == forwardToEndpoint(call.event, eps[call.idx], NoOutcome)
         IN  IF r.thrown
             THEN [call EXCEPT !.state = "rejected", !.target = Undefined]
             ELSE forwardLoop([call EXCEPT !.results = Append(@, r.result),
                                           !.outcomes = Append(@, NoOutcome),
                                           !.idx = @ + 1], eps)

NewCall(event) ==
    [event |-> event, idx |-> 1, results |-> <<>>, outcomes |-> <<>>,
     state |-> "running", target |-> Undefined]

\* the POSTs of a loop that starts every remaining target at once
PostsOf_allRemaining(call) ==
    IF call.state = "inflight"
    THEN [i \in 1..(Len(endpoints) - call.idx + 1) |->
              PostRequest(call.event, endpoints[call.idx + i - 1])]
    ELSE <<>>

\* the POST a call suspended on, if any
PostsOf(call) ==
    IF call.state = "inflight"
    THEN << PostRequest(call.event, call.target) >>
    ELSE <<>>

\* forwardEvent(event) up to its first suspension
ForwardEvent(event) ==
    /\ Len(calls) < MaxCalls
    /\ LET call == forwardLoop(NewCall(event), endpoints)
       IN  /\ calls' = Append(calls, call)
           /\ posts' = Append(posts, PostsOf(call))
    /\ UNCHANGED <<endpoints, edits>>
    /\ UNCHANGED <<hubVars, cliVars, sessVars>>

\* the POST call c waits for settles; the loop goes on to the next suspension
Complete(c, outcome) ==
    /\ calls[c].state = "inflight"
    /\ LET r == forwardToEndpoint(calls[c].event, calls[c].target, outcome)
           call == IF r.thrown
                   THEN [calls[c] EXCEPT !.state = "rejected", !.target = Undefined,
                                         !.outcomes = Append(@, outcome)]
                   ELSE forwardLoop([calls[c] EXCEPT !.results = Append(@, r.result),
                                                     !.outcomes = Append(@, outcome),
                                                     !.idx = @ + 1], endpoints)
       IN  /\ calls' = [calls EXCEPT ![c] = call]
           /\ posts' = [posts EXCEPT ![c] = @ \o PostsOf(call)]
    /\ UNCHANGED <<endpoints, edits>>
    /\ UNCHANGED <<hubVars, cliVars, sessVars>>

InitFwd ==
    /\ HubIdle /\ CliIdle /\ SessIdle
    /\ endpoints \in TargetLists
    /\ calls = <<>>
    /\ posts = <<>>
    /\ edits = <<>>

NextFwd ==
    \/ \E event \in FwdEvents : ForwardEvent(event)
    \/ \E c \in DOMAIN calls, outcome \in Outcomes : Complete(c, outcome)

SpecFwd == InitFwd /\ [][NextFwd]_vars

\* ------------------------------------------------------------------ forwarder: observations
Failed(outcome) == ~(outcome.kind = "response" /\ outcome.status \in 200..299)

Resolved(c) == calls[c].state = "resolved"

\* ------------------------------------------------------------------ C4
\* C4: the results of a forwardEvent call follow the target list, result i
\* for target i, one per target once the call has resolved; a target that
\* timed out is reported failed with an error, a target that answered 2xx
\* successful with its status code.
C4_ResultsFollowTargets ==
    \A c \in DOMAIN calls :
        /\ Len(calls[c].results) <= Len(endpoints)
        /\ Resolved(c) => Len(calls[c].results) = Len(endpoints)
        /\ \A i \in DOMAIN calls[c].results :
              LET r == calls[c].results[i]
                  o == calls[c].outcomes[i]
              IN  /\ r.endpoint = endpoints[i]
                  /\ o.kind = "timeout" =>
                        r.success = FALSE /\ "error" \in DOMAIN r /\ r.error # Undefined
                  /\ (o.kind = "response" /\ o.status \in 200..299) =>
                        r.success = TRUE /\ r.statusCode = o.status

\* targets [a, b], a timed out, b answered 200
C4_Witness ==
    \E c \in DOMAIN calls :
        /\ Resolved(c)
        /\ endpoints = <<"http://a", "http://b">>
        /\ calls[c].outcomes[1].kind = "timeout"
        /\ calls[c].outcomes[2] = [kind |-> "response", status |-> 200, ms |-> 1]
        /\ calls[c].results[1].success = FALSE
        /\ calls[c].results[1].responseTime >= DefaultTimeout
        /\ calls[c].results[2].success = TRUE
        /\ calls[c].results[2].statusCode = 200

\* ------------------------------------------------------------------ C5
\* C5: a forwardEvent call never rejects; a failure on a target is that
\* target's result (success false, error set), and the call has gone on to
\* the next target: it waits on the POST to target Len(results)+1, or has
\* resolved with a result for every target.
C5_FailureIsolated ==
    \A c \in DOMAIN calls :
        /\ calls[c].state \in {"inflight", "resolved"}
        /\ \A i \in DOMAIN calls[c].results :
              (Failed(calls[c].outcomes[i]) \/ ~IsDate(calls[c].event.timestamp)) =>
                  /\ calls[c].results[i].success = FALSE
                  /\ "error" \in DOMAIN calls[c].results[i]
        /\ calls[c].state = "inflight" =>
              /\ Len(calls[c].results) < Len(endpoints)
              /\ Len(posts[c]) = Len(calls[c].results) + 1
              /\ posts[c][Len(posts[c])].url = endpoints[Len(posts[c])]
        /\ calls[c].state = "resolved" =>
              /\ Len(calls[c].results) = Len(endpoints)
              /\ IsDate(calls[c].event.timestamp) => Len(posts[c]) = Len(endpoints)

\* the first target failed, the second was still POSTed to, the call resolved
C5_Witness ==
    \E c \in DOMAIN calls :
        /\ Resolved(c)
        /\ Len(calls[c].results) = 2
        /\ Failed(calls[c].outcomes[1])
        /\ calls[c].results[1].success = FALSE
        /\ Len(posts[c]) = 2
        /\ posts[c][2].url = "http://b"
        /\ calls[c].results[2].success = TRUE

\* ------------------------------------------------------------------ C6
\* C6: a target that answered with a non-2xx status has that status as the
\* statusCode of its result, and the answer is not handled as a thrown
\* failure (no error message in the result).
C6_NonSuccessStatusReported ==
    \A c \in DOMAIN calls : \A i \in DOMAIN calls[c].results :
        LET r == calls[c].results[i]
            o == calls[c].outcomes[i]
        IN  (o.kind = "response" /\ o.status \notin 200..299) =>
                /\ "statusCode" \in DOMAIN r
                /\ r.statusCode = o.status
                /\ "error" \notin DOMAIN r

\* ------------------------------------------------------------------ the CLI
\* AnchrCLI.handleEvent, called by the callback subscribe() registers for the
\* session's 'webhook' events.
MaxPrefixes == 2
MaxHandled  == 2

Prefixes == {P_github, P_stripe, P_api, P_gi, P_root}
PrefixLists == UNION {[1..n -> Prefixes] : n \in 0..MaxPrefixes}

CliPaths == {P_github, P_stripe_extra, P_other, P_api_users, P_git}

\* what the session hands to the callback: the hub's event as it came off
\* the wire
CliEvents ==
    {JsonEvent(createWebhookEvent("10.0.0.1", path,
                                  sanitizeHeaders(N_content_type :> "application/json"),
                                  "push", "POST", "10.0.0.1", "curl", 1, 0))
        : path \in CliPaths}

\* String.prototype.startsWith, position by position
RECURSIVE startsWithFrom(_, _, _)
startsWithFrom(str, search, i) ==
    IF i > Len(search) THEN TRUE
    ELSE IF i > Len(str) THEN FALSE
    ELSE str[i] = search[i] /\ startsWithFrom(str, search, i + 1)

startsWith(str, search) == startsWithFrom(str, search, 1)

\* the filter compares for equality only
RECURSIVE shouldProcess_exactOnly(_, _)
shouldProcess_exactOnly(event, subs) ==
    IF subs = <<>> THEN FALSE
    ELSE \/ event.endpoint = Head(subs)
         \/ shouldProcess_exactOnly(event, Tail(subs))

\* subscribeEndpoints.some(endpoint => event.endpoint === endpoint ||
\*                                     event.endpoint.startsWith(endpoint))
RECURSIVE shouldProcess(_, _)
shouldProcess(event, subs) ==
    IF subs = <<>> THEN FALSE
    ELSE \/ event.endpoint = Head(subs)
         \/ startsWith(event.endpoint, Head(subs))
         \/ shouldProcess(event, Tail(subs))

\* handleEvent without the endpoint filter
handleEvent_noFilter(event, subs) ==
    IF IsDate(event.timestamp)
    THEN [endpoint |-> event.endpoint, accepted |-> TRUE, outcome |-> "printed"]
    ELSE [endpoint |-> event.endpoint, accepted |-> TRUE, outcome |-> "threw"]

\* handleEvent up to the line that prints the event (subscribe() always
\* passes an array, options.endpoints || []): skipped by the filter,
\* or accepted; formatEvent then calls timestamp.toISOString(), which a
\* timestamp that is a string does not have.
handleEvent(event, subs) ==
    IF Len(subs) > 0 /\ ~shouldProcess(event, subs)
    THEN [endpoint |-> event.endpoint, accepted |-> FALSE, outcome |-> "skipped"]
    ELSE IF IsDate(event.timestamp)
    THEN [endpoint |-> event.endpoint, accepted |-> TRUE, outcome |-> "printed"]
    ELSE [endpoint |-> event.endpoint, accepted |-> TRUE, outcome |-> "threw"]

\* One 'webhook' event reaches the callback.  A throw in handleEvent rejects
\* the callback's promise, which nothing awaits: the runtime either ends the
\* process on the unhandled rejection or only warns.
HandleEvent(event) ==
    /\ cliAlive
    /\ Len(handled) < MaxHandled
    /\ LET h == handleEvent(event, subscribeEndpoints)
       IN  /\ handled' = Append(handled, h)
           /\ IF h.outcome = "threw"
              THEN cliAlive' \in BOOLEAN
              ELSE cliAlive' = TRUE
           /\ IF h.outcome = "printed" /\ Len(endpoints) > 0
              THEN LET call == forwardLoop(NewCall(event), endpoints)
                   IN  /\ calls' = Append(calls, call)
                       /\ posts' = Append(posts, PostsOf(call))
              ELSE UNCHANGED <<calls, posts>>
    /\ UNCHANGED <<subscribeEndpoints, endpoints, edits>>
    /\ UNCHANGED <<hubVars, sessVars>>

InitCli ==
    /\ HubIdle /\ FwdIdle /\ SessIdle
    /\ subscribeEndpoints \in PrefixLists
    /\ handled = <<>>
    /\ cliAlive = TRUE

NextCli == \E event \in CliEvents : HandleEvent(event)

SpecCli == InitCli /\ [][NextCli]_vars

\* ------------------------------------------------------------------ C7
IsPrefixOf(p, str) == Len(p) <= Len(str) /\ SubSeq(str, 1, Len(p)) = p

\* C7: an event passes the endpoint filter iff no prefix is subscribed, or
\* its endpoint equals a subscribed prefix or begins with one; with
\* ["/github", "/stripe"], /github and /stripe/extra pass and /other and
\* /api/users do not.
C7_EndpointFilter ==
    \A i \in DOMAIN handled :
        /\ handled[i].accepted <=>
              \/ subscribeEndpoints = <<>>
              \/ \E k \in DOMAIN subscribeEndpoints :
                    \/ handled[i].endpoint = subscribeEndpoints[k]
                    \/ IsPrefixOf(subscribeEndpoints[k], handled[i].endpoint)
        /\ subscribeEndpoints = <<P_github, P_stripe>> =>
              /\ handled[i].endpoint \in {P_github, P_stripe_extra} => handled[i].accepted
              /\ handled[i].endpoint \in {P_other, P_api_users} => ~handled[i].accepted

\* /api/users was dropped and /stripe/extra let through by [/github, /stripe]
C7_Witness ==
    /\ subscribeEndpoints = <<P_github, P_stripe>>
    /\ Len(handled) = 2
    /\ handled[1].endpoint = P_api_users /\ ~handled[1].accepted
    /\ handled[2].endpoint = P_stripe_extra /\ handled[2].accepted

\* ------------------------------------------------------------------ the session
\* WebSocketClient over socket.io-client as imported ({ io, Socket }: the
\* 3.x/4.x API).  There a Socket emits connect, connect_error and disconnect;
\* reconnect, reconnect_attempt, reconnect_error and reconnect_failed are
\* emitted by its Manager.  connect() is called once on a session.
MaxRetries == 2
MaxDrops   == 1

DefaultMaxRetries == 5
Null == "null"

MaxAttemptsMessage == "Max reconnection attempts reached"
ConnectErrors == {"xhr poll error"}
DropReasons   == {"transport close", "ping timeout"}
ClientDisconnectReason == "io client disconnect"

\* maxRetries 0 stands for the falsy values (0, NaN, undefined)
Configs == {[maxRetries |-> m] : m \in 0..MaxRetries}

\* reconnectionAttempts: this.config.maxRetries || 5
reconnectionAttempts(cfg) ==
    IF cfg.maxRetries = 0 THEN DefaultMaxRetries ELSE cfg.maxRetries

StatusInit == [connected |-> FALSE, reconnectAttempts |-> 0, error |-> Undefined]

SessInit ==
    [socket |-> Null, status |-> StatusInit, reconnectAttempts |-> 0,
     promise |-> "none"]

MgrNone ==
    [state |-> "none", attempts |-> 0, reconnecting |-> FALSE,
     skipReconnect |-> FALSE, timer |-> FALSE, failed |-> FALSE]

\* The handlers work on w = [sess, out, mgr, log]: the session's fields, the
\* statuses handed to the status callback, the Manager, the events so far.
updateStatus(w) == [w EXCEPT !.out = Append(@, w.sess.status)]

\* a promise that takes every resolve and reject
Settle_everyTime(promise, how) == how

Settle(promise, how) == IF promise = "pending" THEN how ELSE promise

\* the connect handler leaves the last error in place
OnConnect_keepsError(w) ==
    LET w1 == [w EXCEPT !.sess.status =
                   [connected |-> TRUE, lastConnected |-> DateAt(clock),
                    reconnectAttempts |-> 0, error |-> w.sess.status.error]]
        w2 == updateStatus(w1)
    IN  [w2 EXCEPT !.sess.promise = Settle(@, "resolved")]

OnConnect(w) ==
    LET w1 == [w EXCEPT !.sess.status =
                   [connected |-> TRUE, lastConnected |-> DateAt(clock),
                    reconnectAttempts |-> 0, error |-> Undefined]]
        w2 == updateStatus(w1)
    IN  [w2 EXCEPT !.sess.promise = Settle(@, "resolved")]

OnDisconnect(w, reason) ==
    updateStatus([w EXCEPT !.sess.status.connected = FALSE,
                           !.sess.status.error = reason])

OnConnectError(w, message) ==
    LET w1 == [w EXCEPT !.sess.status.connected = FALSE,
                        !.sess.status.error = message,
                        !.sess.reconnectAttempts = @ + 1]
        w2 == updateStatus(w1)
    IN  [w2 EXCEPT !.sess.promise = Settle(@, "rejected")]

OnReconnect(w, attemptNumber) ==
    updateStatus([w EXCEPT !.sess.status =
                      [connected |-> TRUE, lastConnected |-> DateAt(clock),
                       reconnectAttempts |-> attemptNumber, error |-> Undefined]])

OnReconnectAttempt(w, attemptNumber) ==
    updateStatus([w EXCEPT !.sess.status.reconnectAttempts = attemptNumber])

OnReconnectFailed(w) ==
    updateStatus([w EXCEPT !.sess.status.connected = FALSE,
                           !.sess.status.error = MaxAttemptsMessage])

\* an event emitted by the Socket runs the handler registered under its name
socketEmit(w, name, arg) ==
    CASE name = "connect"           -> OnConnect(w)
      [] name = "disconnect"        -> OnDisconnect(w, arg)
      [] name = "connect_error"     -> OnConnectError(w, arg)
      [] name = "reconnect"         -> OnReconnect(w, arg)
      [] name = "reconnect_attempt" -> OnReconnectAttempt(w, arg)
      [] name = "reconnect_failed"  -> OnReconnectFailed(w)
      [] OTHER                      -> w

\* an event emitted by the Manager: the session registers nothing on it
managerEmit(w, name, arg) == w

Log(w, op) ==
    [w EXCEPT !.log = Append(@, [op |-> op, error |-> w.sess.status.error])]

World == [sess |-> sess, out |-> statusCalls, mgr |-> mgr, log |-> oplog]

Becomes(w) ==
    /\ sess' = w.sess
    /\ statusCalls' = w.out
    /\ mgr' = w.mgr
    /\ oplog' = w.log
    /\ UNCHANGED config
    /\ UNCHANGED <<hubVars, fwdVars, cliVars>>

\* Manager.reconnect(): nothing while a reconnection runs or after a
\* deliberate close; with the attempts used up, reconnect_failed on the
\* Manager and no timer; otherwise the timer of the next attempt.
reconnect(w) ==
    IF w.mgr.reconnecting \/ w.mgr.skipReconnect THEN w
    ELSE IF w.mgr.attempts >= reconnectionAttempts(config)
    THEN Log(managerEmit([w EXCEPT !.mgr.attempts = 0,
                                   !.mgr.reconnecting = FALSE,
                                   !.mgr.failed = TRUE],
                         "reconnect_failed", 0),
             "reconnect_failed")
    ELSE [w EXCEPT !.mgr.attempts = @ + 1,
                   !.mgr.reconnecting = TRUE,
                   !.mgr.timer = TRUE]

\* connect(): io() creates the Socket and opens its Manager; the handlers
\* are registered on the Socket.
connect ==
    /\ mgr.state = "none"
    /\ Becomes(Log([World EXCEPT !.sess.socket = "socket",
                                 !.sess.promise = "pending",
                                 !.mgr.state = "opening"],
                   "connect()"))

\* the transport opens; the Socket emits connect, the Manager reconnect if
\* this was a reconnection
OpenOk ==
    /\ mgr.state = "opening"
    /\ LET n  == mgr.attempts
           w1 == [World EXCEPT !.mgr.state = "open",
                               !.mgr.reconnecting = FALSE,
                               !.mgr.attempts = 0]
           w2 == IF mgr.reconnecting THEN managerEmit(w1, "reconnect", n) ELSE w1
       IN  Becomes(Log(socketEmit(w2, "connect", 0), "open"))

\* the transport fails to open; the Socket emits connect_error, the Manager
\* goes on to Manager.reconnect()
OpenFail(message) ==
    /\ mgr.state = "opening"
    /\ LET w1 == [World EXCEPT !.mgr.state = "closed"]
           w2 == Log(socketEmit(managerEmit(w1, "error", message),
                                "connect_error", message), "error")
           w3 == IF mgr.reconnecting
                 THEN managerEmit(reconnect([w2 EXCEPT !.mgr.reconnecting = FALSE]),
                                  "reconnect_error", message)
                 ELSE IF w2.mgr.attempts = 0 THEN reconnect(w2) ELSE w2
       IN  Becomes(w3)

\* the reconnection timer fires; the Manager emits reconnect_attempt and
\* opens again
ReconnectTimer ==
    /\ mgr.timer
    /\ ~mgr.skipReconnect
    /\ Becomes(Log(managerEmit([World EXCEPT !.mgr.timer = FALSE,
                                             !.mgr.state = "opening"],
                               "reconnect_attempt", mgr.attempts),
                   "reconnect_attempt"))

Drops == Cardinality({i \in DOMAIN oplog : oplog[i].op = "close"})

\* the open transport is lost; the Socket emits disconnect with the reason,
\* the Manager goes on to Manager.reconnect()
Drop(reason) ==
    /\ mgr.state = "open"
    /\ Drops < MaxDrops
    /\ LET w1 == [World EXCEPT !.mgr.state = "closed", !.mgr.attempts = 0]
           w2 == Log(socketEmit(w1, "disconnect", reason), "close")
       IN  Becomes(reconnect(w2))

\* disconnect(): Socket.disconnect() closes the Manager for good and, on a
\* connected Socket, emits disconnect with reason "io client disconnect";
\* then the socket field is cleared and the status reported.
disconnectFrom(w) ==
    IF w.sess.socket = Null THEN w
    ELSE LET wasConnected == w.mgr.state = "open"
             w1 == [w EXCEPT !.mgr.state = "closed",
                             !.mgr.skipReconnect = TRUE,
                             !.mgr.reconnecting = FALSE,
                             !.mgr.timer = FALSE,
                             !.mgr.attempts = 0]
             w2 == IF wasConnected
                   THEN socketEmit(w1, "disconnect", ClientDisconnectReason)
                   ELSE w1
             w3 == updateStatus([w2 EXCEPT !.sess.socket = Null,
                                           !.sess.status.connected = FALSE])
         IN  Log(w3, "disconnect()")

disconnect ==
    /\ sess.socket # Null
    /\ Becomes(disconnectFrom(World))

InitSession ==
    /\ HubIdle /\ FwdIdle /\ CliIdle
    /\ config \in Configs
    /\ sess = SessInit
    /\ statusCalls = <<>>
    /\ mgr = MgrNone
    /\ oplog = <<>>

NextSession ==
    \/ connect
    \/ OpenOk
    \/ \E message \in ConnectErrors : OpenFail(message)
    \/ ReconnectTimer
    \/ \E reason \in DropReasons : Drop(reason)
    \/ disconnect

SpecSession == InitSession /\ [][NextSession]_vars

\* ------------------------------------------------------------------ session: observations
Exhausted == mgr.failed

Ops(names) == {i \in DOMAIN oplog : oplog[i].op \in names}

\* ------------------------------------------------------------------ C9
\* C9: once the reconnect attempts are used up, the status is connected=false
\* with the terminal error recorded, the status callback was last invoked
\* with that status, no reconnection is pending, and nothing after the
\* exhaustion is a reconnect attempt or an open transport.
C9_ExhaustionIsTerminal ==
    Exhausted =>
        /\ sess.status.connected = FALSE
        /\ sess.status.error = MaxAttemptsMessage
        /\ statusCalls # <<>>
        /\ statusCalls[Len(statusCalls)] = sess.status
        /\ mgr.state = "closed" /\ ~mgr.timer /\ ~mgr.reconnecting
        /\ \A i \in Ops({"reconnect_failed"}) :
              \A j \in Ops({"reconnect_attempt", "open"}) : j < i

\* ------------------------------------------------------------------ C10
\* C10: after disconnect() the status is connected=false, the transport is
\* closed, nothing later is a reconnect attempt or an open transport, and
\* the call left the status error as it was.
C10_DeliberateDisconnect ==
    \A i \in Ops({"disconnect()"}) :
        /\ sess.status.connected = FALSE
        /\ mgr.state = "closed" /\ ~mgr.timer /\ ~mgr.reconnecting
        /\ \A j \in Ops({"reconnect_attempt", "open", "error"}) : j < i
        /\ oplog[i].error = oplog[i - 1].error

\* ------------------------------------------------------------------ C11
LastOp == oplog[Len(oplog)].op

\* C11: when the transport has just opened, on the first connection or on a
\* reconnection, the status is connected=true with lastConnected set,
\* reconnectAttempts 0 and no error, and the status callback was last
\* invoked with exactly that status; the status stays so while the
\* transport is open.
C11_ConnectedStatus ==
    (oplog # <<>> /\ LastOp = "open") =>
        /\ mgr.state = "open"
        /\ sess.status.connected = TRUE
        /\ "lastConnected" \in DOMAIN sess.status
        /\ IsDate(sess.status.lastConnected)
        /\ sess.status.reconnectAttempts = 0
        /\ sess.status.error = Undefined
        /\ statusCalls # <<>>
        /\ statusCalls[Len(statusCalls)] = sess.status

\* a reconnection succeeded after the connection was lost and one attempt
\* had failed
C11_Witness ==
    /\ oplog # <<>> /\ LastOp = "open"
    /\ Len(oplog) >= 6
    /\ oplog[Len(oplog) - 1].op = "reconnect_attempt"
    /\ oplog[Len(oplog) - 2].op = "error"
    /\ Ops({"close"}) # {}
    /\ sess.status.connected

\* ------------------------------------------------------------------ C12
OpenSockets == {s \in DOMAIN sockets : sockets[s].open}

\* C12: in every state of the Hub, activeConnections is the number of
\* connections the Hub holds open, and it is not negative.
C12_ActiveConnections ==
    /\ stats.activeConnections = Cardinality(OpenSockets)
    /\ stats.activeConnections >= 0

\* two connections were opened, one closed again, a ping was answered and an
\* event broadcast
C12_Witness ==
    /\ Len(sockets) = 2
    /\ Cardinality(OpenSockets) = 1
    /\ stats.activeConnections = 1
    /\ Pongs = 1
    /\ stats.totalEvents = 1

\* ------------------------------------------------------------------ C13
\* the event of the latest broadcastEvent call
LatestBroadcast == CHOOSE e \in BroadcastEvents : \A o \in BroadcastEvents : o.id <= e.id

\* C13: totalEvents is the number of broadcastEvent calls made, one per
\* call whether or not any subscriber is connected, and lastEvent is the
\* timestamp of the latest call's event; while no subscriber has connected
\* nothing is sent.
C13_BroadcastCounts ==
    /\ stats.totalEvents = Cardinality(BroadcastEvents)
    /\ BroadcastEvents # {} => stats.lastEvent = LatestBroadcast.timestamp
    /\ sockets = <<>> => pushed = <<>>

\* one event was broadcast while no subscriber had ever connected
C13_Witness ==
    /\ sockets = <<>>
    /\ BroadcastEvents # {}
    /\ stats.totalEvents = 1
    /\ stats.lastEvent = DateAt(0)
    /\ pushed = <<>>

\* ------------------------------------------------------------------ C14
\* the handleWebhook calls that threw before answering
FailedCalls == {i \in DOMAIN http : http[i].req.body = Undefined}

\* C14: a handleWebhook call that fails answers 500 {success: false, error}
\* and nothing else, does not invoke the callback, and no packet for it is
\* written to any socket; the other calls answer 200.
C14_FailureAnswers500 ==
    \A i \in DOMAIN http :
        IF i \in FailedCalls
        THEN /\ http[i].out = << [kind |-> "res", status |-> 500, success |-> FALSE,
                                  error |-> "Internal server error"] >>
             /\ CallbackEvents(http[i].out) = {}
             /\ \A s \in DOMAIN pushed : \A k \in WebhookAt(s) : pushed[s][k].data.id # i
        ELSE http[i].out[1].status = 200

\* a call failed while a subscriber was connected, the next one succeeded:
\* the subscriber has the second event only
C14_Witness ==
    /\ Len(http) = 2
    /\ FailedCalls = {1}
    /\ Len(sockets) = 1 /\ sockets[1].open
    /\ Len(pushed[1]) = 2
    /\ pushed[1][2].type = "webhook" /\ pushed[1][2].data.id = 2
    /\ stats.totalEvents = 1

\* ------------------------------------------------------------------ C15
\* the POSTs call c issued to target i
PostsTo(c, i) == {k \in DOMAIN posts[c] : posts[c][k].url = endpoints[i]}

FirstOutcome ==
    LET outs == Ops({"open", "error"})
    IN  IF outs = {} THEN "none"
        ELSE oplog[CHOOSE i \in outs : \A j \in outs : i <= j].op

\* C16: the promise of connect() is pending until the first attempt ends,
\* fulfilled if that attempt succeeded and rejected if it failed, and keeps
\* that outcome whatever the transport does afterwards.
C16_PromiseSettledOnce ==
    sess.promise = CASE oplog = <<>>             -> "none"
                     [] FirstOutcome = "none"    -> "pending"
                     [] FirstOutcome = "open"    -> "resolved"
                     [] OTHER                    -> "rejected"

\* the first attempt failed, a reconnection succeeded: still rejected
C16_Witness ==
    /\ FirstOutcome = "error"
    /\ mgr.state = "open"
    /\ sess.status.connected
    /\ sess.promise = "rejected"

\* ------------------------------------------------------------------ the subscriber process
\* AnchrCLI.subscribe(): the session is connected once; when connect()
\* rejects, the catch block ends the process; once it has resolved, the
\* SIGINT and SIGTERM handlers are installed and run shutdown().
Running == cliAlive /\ sess.promise # "rejected"

\* subscribe()'s catch block: process.exit(1)
ExitOnReject ==
    /\ cliAlive
    /\ sess.promise = "rejected"
    /\ cliAlive' = FALSE
    /\ UNCHANGED <<subscribeEndpoints, handled>>
    /\ UNCHANGED <<hubVars, fwdVars, sessVars>>

\* shutdown(): this.client.disconnect(), then process.exit(0)
Shutdown ==
    /\ cliAlive
    /\ sess.promise = "resolved"
    /\ LET w == disconnectFrom(World)
       IN  /\ sess' = w.sess
           /\ statusCalls' = w.out
           /\ mgr' = w.mgr
           /\ oplog' = w.log
    /\ cliAlive' = FALSE
    /\ UNCHANGED <<config, subscribeEndpoints, handled>>
    /\ UNCHANGED <<hubVars, fwdVars>>

NextShutdown ==
    \/ Running /\ connect
    \/ Running /\ OpenOk
    \/ Running /\ \E message \in ConnectErrors : OpenFail(message)
    \/ Running /\ ReconnectTimer
    \/ Running /\ \E reason \in DropReasons : Drop(reason)
    \/ ExitOnReject
    \/ Shutdown

SpecShutdown == InitSession /\ [][NextShutdown]_vars

\* ------------------------------------------------------------------ C17
\* the process ended in shutdown()
ShutDown == ~cliAlive /\ sess.promise = "resolved"

FreshWorld == [sess |-> SessInit, out |-> <<>>, mgr |-> MgrNone, log |-> <<>>]

\* the session after connect() and the first 'connect'
ConnectedWorld ==
    LET w1 == Log([FreshWorld EXCEPT !.sess.socket = "socket",
                                     !.sess.promise = "pending",
                                     !.mgr.state = "opening"], "connect()")
    IN  Log(socketEmit([w1 EXCEPT !.mgr.state = "open"], "connect", 0), "open")

InitForwarding ==
    /\ HubIdle
    /\ subscribeEndpoints = <<>> /\ handled = <<>> /\ cliAlive = TRUE
    /\ config = [maxRetries |-> 0]
    /\ sess = ConnectedWorld.sess
    /\ statusCalls = ConnectedWorld.out
    /\ mgr = ConnectedWorld.mgr
    /\ oplog = ConnectedWorld.log
    /\ endpoints \in TargetLists
    /\ calls = <<>>
    /\ posts = <<>>
    /\ edits = <<>>

NextForwarding ==
    \/ cliAlive /\ \E event \in FwdEvents : ForwardEvent(event)
    \/ cliAlive /\ \E c \in DOMAIN calls, outcome \in Outcomes : Complete(c, outcome)
    \/ cliAlive /\ disconnect
    \/ Shutdown

SpecForwarding == InitForwarding /\ [][NextForwarding]_vars

PongsAt(out) == {i \in DOMAIN out : out[i].type = "pong"}

\* a step in which pongs are written: one pong, stamped with the time,
\* appended to the pinged socket; everything else as it was
C19_Step ==
    (\E t \in DOMAIN pushed : PongsAt(pushed'[t]) # PongsAt(pushed[t])) =>
        /\ sockets' = sockets
        /\ clientSock' = clientSock
        /\ stats' = stats
        /\ \E s \in DOMAIN pushed :
              /\ sockets[s].open
              /\ pushed'[s] = Append(pushed[s], Pong(s, clock))
              /\ \A t \in DOMAIN pushed \ {s} : pushed'[t] = pushed[t]

\* C19: a ping puts exactly one pong, carrying a timestamp, on the socket
\* that was pinged and nothing on any other socket, and changes neither the
\* set of connections nor the statistics.
C19_PongToSender == [][C19_Step]_vars

\* two sockets are open, the second was pinged: it alone has a pong
C19_Witness ==
    /\ Len(sockets) = 2
    /\ sockets[1].open /\ sockets[2].open
    /\ PongsAt(pushed[1]) = {}
    /\ \E i \in PongsAt(pushed[2]) : pushed[2][i].pinged = 2
    /\ stats.activeConnections = 2

\* ------------------------------------------------------------------ C20
\* what the getStats() calls made so far returned as uptime: one call per
\* connection (the 'stats' packet) and one per GET /stats
StatsRoutes(log) == {i \in DOMAIN log : log[i].req.method = "GET"}

UptimesReturned(out, log) ==
    {out[s][1].data.uptime : s \in DOMAIN out}
        \cup {log[i].out[1].stats.uptime : i \in StatsRoutes(log)}

\* the uptimes returned by the calls of this step
NewUptimes ==
    {pushed'[s][1].data.uptime : s \in DOMAIN pushed' \ DOMAIN pushed}
        \cup {http'[i].out[1].stats.uptime : i \in StatsRoutes(http') \ DOMAIN http}

C20_Step ==
    \A new \in NewUptimes :
        /\ new >= 0
        /\ \A old \in UptimesReturned(pushed, http) : old <= new

\* C20: every getStats() call returns an uptime at least as large as every
\* uptime returned by an earlier call, whatever connections, disconnections
\* and broadcasts happen in between.
C20_UptimeMonotonic == [][C20_Step]_vars

\* getStats() returned 0 to a new connection and later 1 to GET /stats,
\* with a disconnection and a broadcast in between
C20_Witness ==
    /\ Len(sockets) >= 1 /\ ~sockets[1].open
    /\ pushed[1][1].data.uptime = 0
    /\ stats.totalEvents = 1
    /\ Len(http) = 2
    /\ StatsRoutes(http) = {2}
    /\ http[2].out[1].stats.uptime = 1

\* ------------------------------------------------------------------ EventForwarder.endpoints
\* src/src/cli/index.ts 337-359: the list of forward targets and its mutators.

MaxEdits == 2       \* addEndpoint/removeEndpoint/setEndpoints calls in one run

\* the targets the mutators are called with
EditTargets == {"http://a", "http://b", "http://c"}

\* the arrays setEndpoints is called with; an array may name a target twice
SetLists == {<<>>} \cup {<<t>> : t \in EditTargets}
                   \cup {<<t, u>> : t \in EditTargets, u \in EditTargets}

\* Array.prototype.includes
includes(list, x) == \E i \in DOMAIN list : list[i] = x

\* Array.prototype.indexOf: the first index (from 0) holding x, or -1
indexOf(list, x) ==
    IF includes(list, x)
    THEN (CHOOSE i \in DOMAIN list :
              list[i] = x /\ \A j \in DOMAIN list : list[j] = x => i <= j) - 1
    ELSE -1

\* Array.prototype.splice(index, 1): the array without the element at index
splice1(list, index) ==
    SubSeq(list, 1, index) \o SubSeq(list, index + 2, Len(list))

\* addEndpoint with the includes test left out
addEndpoint_alwaysPush(list, endpoint) == Append(list, endpoint)

addEndpoint(list, endpoint) ==
    IF ~includes(list, endpoint) THEN Append(list, endpoint) ELSE list

removeEndpoint(list, endpoint) ==
    LET index == indexOf(list, endpoint)
    IN  IF index > -1 THEN splice1(list, index) ELSE list

\* this.endpoints = [...endpoints]
setEndpoints(given) == [i \in DOMAIN given |-> given[i]]

\* [...this.endpoints]
getEndpoints == [i \in DOMAIN endpoints |-> endpoints[i]]

Edit(op, arg, after) ==
    /\ Len(edits) < MaxEdits
    /\ endpoints' = after
    /\ edits' = Append(edits, [op |-> op, arg |-> arg,
                               before |-> getEndpoints, after |-> after])
    /\ UNCHANGED <<calls, posts>>
    /\ UNCHANGED <<hubVars, cliVars, sessVars>>

AddEndpoint(t)     == Edit("addEndpoint", <<t>>, addEndpoint(endpoints, t))
RemoveEndpoint(t)  == Edit("removeEndpoint", <<t>>, removeEndpoint(endpoints, t))
SetEndpoints(list) == Edit("setEndpoints", list, setEndpoints(list))

InitEndpoints ==
    /\ HubIdle /\ CliIdle /\ SessIdle
    /\ endpoints \in TargetLists
    /\ calls = <<>>
    /\ posts = <<>>
    /\ edits = <<>>

NextEndpoints ==
    \/ \E t \in EditTargets : AddEndpoint(t)
    \/ \E t \in EditTargets : RemoveEndpoint(t)
    \/ \E list \in SetLists : SetEndpoints(list)

SpecEndpoints == InitEndpoints /\ [][NextEndpoints]_vars

\* ------------------------------------------------------------------ C21
Adds == {i \in DOMAIN edits : edits[i].op = "addEndpoint"}

\* C21: adding a target that is already in the list leaves the list as it
\* was; a second addEndpoint(t) right after addEndpoint(t) changes nothing;
\* and whatever addEndpoint does, the targets that were in the list stay
\* where they were, in their order.
C21_AddIdempotent ==
    \A i \in Adds :
        LET t == edits[i].arg[1]
            before == edits[i].before
            after == edits[i].after
        IN  /\ includes(before, t) => after = before
            /\ includes(after, t)
            /\ Len(after) >= Len(before)
            /\ SubSeq(after, 1, Len(before)) = before
            /\ (i + 1 \in Adds /\ edits[i + 1].arg = edits[i].arg)
                   => edits[i + 1].after = after

\* addEndpoint(b) twice on the list [a]: the first call appended b, the
\* second found it there
C21_Witness ==
    /\ Len(edits) = 2
    /\ edits[1] = [op |-> "addEndpoint", arg |-> <<"http://b">>,
                   before |-> <<"http://a">>,
                   after |-> <<"http://a", "http://b">>]
    /\ edits[2].op = "addEndpoint" /\ edits[2].arg = <<"http://b">>
    /\ endpoints = <<"http://a", "http://b">>

\* ------------------------------------------------------------------ C22
\* C22: the event a forwardEvent call was given is only read: in every step
\* (the start of a call, the completion of a POST, the move to the next
\* target, the return of the results) the event each call holds keeps all
\* its fields, and the body of each POST is a new object that differs from
\* the event in the timestamp alone.
C22_Step ==
    /\ \A c \in DOMAIN calls : calls'[c].event = calls[c].event
    /\ \A c \in DOMAIN calls' :
           /\ calls'[c].event \in FwdEvents
           /\ \A i \in DOMAIN posts'[c] :
                  posts'[c][i].data = [calls'[c].event EXCEPT !.timestamp = toISOString(@)]

C22_EventNotMutated == [][C22_Step]_vars

\* a call was given the typed event, forwarded it to [a, b] and returned;
\* the event it holds is the event it was given
C22_Witness ==
    \E c \in DOMAIN calls :
        /\ Resolved(c)
        /\ Len(endpoints) = 2
        /\ Len(posts[c]) = 2
        /\ calls[c].event = TypedEvent

\* ------------------------------------------------------------------ C23
\* the POSTs of call c that were answered, failed or timed out
Settled(c) == {i \in DOMAIN calls[c].outcomes : calls[c].outcomes[i] # NoOutcome}

\* the POSTs of call c that were started and have not settled
InFlight(c) == Len(posts[c]) - Cardinality(Settled(c))

\* C23: within one forwardEvent call the POSTs go to the targets in list
\* order, and at most one of them is in flight: the POST to the next target
\* exists only when every earlier POST of the call has settled.
C23_OneAtATime ==
    \A c \in DOMAIN calls :
        /\ InFlight(c) \in {0, 1}
        /\ InFlight(c) = 1 <=> calls[c].state = "inflight"
        /\ \A i \in DOMAIN posts[c] :
               /\ i <= Len(endpoints)
               /\ posts[c][i].url = endpoints[i]
               /\ i > 1 => (i - 1) \in Settled(c)

\* targets [a, b]: the POST to a has settled, the POST to b is in flight
C23_Witness ==
    \E c \in DOMAIN calls :
        /\ calls[c].state = "inflight"
        /\ Len(posts[c]) = 2
        /\ Settled(c) = {1}
        /\ posts[c][2].url = "http://b"

\* ------------------------------------------------------------------ the CLI with forward targets
\* anchr subscribe --forward <urls>: the forwarder has at least one target
InitCliTargets ==
    /\ HubIdle /\ SessIdle
    /\ endpoints \in TargetLists \ {<<>>}
    /\ calls = <<>>
    /\ posts = <<>>
    /\ edits = <<>>
    /\ subscribeEndpoints \in PrefixLists
    /\ handled = <<>>
    /\ cliAlive = TRUE

NextCliTargets == \E event \in CliEvents : HandleEvent(event)

SpecCliTargets == InitCliTargets /\ [][NextCliTargets]_vars

\* ------------------------------------------------------------------ C24
\* the endpoint filter turns this path away
Rejected(path) ==
    /\ subscribeEndpoints # <<>>
    /\ \A k \in DOMAIN subscribeEndpoints : ~IsPrefixOf(subscribeEndpoints[k], path)

\* C24: an event the endpoint filter rejects is dropped and nothing else
\* happens: handleEvent returns without printing or throwing, starts no
\* forward call and issues no POST; so every forward call and every POST
\* carries an event the filter accepted, and a run of rejected events alone
\* leaves the process running with no call and no POST made.
C24_RejectedIsDropped ==
    /\ \A i \in DOMAIN handled :
           Rejected(handled[i].endpoint) => handled[i].outcome = "skipped"
    /\ \A c \in DOMAIN calls :
           /\ ~Rejected(calls[c].event.endpoint)
           /\ \A k \in DOMAIN posts[c] : ~Rejected(posts[c][k].data.endpoint)
    /\ (\A i \in DOMAIN handled : Rejected(handled[i].endpoint))
           => cliAlive /\ calls = <<>> /\ posts = <<>>

\* with a forward target configured and /github subscribed, /other and
\* /api/users arrived and were dropped
C24_Witness ==
    /\ endpoints # <<>>
    /\ subscribeEndpoints = <<P_github>>
    /\ Len(handled) = 2
    /\ handled[1].endpoint = P_other /\ handled[1].outcome = "skipped"
    /\ handled[2].endpoint = P_api_users /\ handled[2].outcome = "skipped"
    /\ calls = <<>> /\ posts = <<>> /\ cliAlive

\* ------------------------------------------------------------------ C25
\* the latest loss of the open transport, 0 if there was none
LastClose ==
    IF Ops({"close"}) = {} THEN 0
    ELSE CHOOSE i \in Ops({"close"}) : \A j \in Ops({"close"}) : j <= i

\* the reconnect attempts made since the latest loss
AttemptsSinceClose == {i \in Ops({"reconnect_attempt"}) : i > LastClose}

\* C25: when the open transport is lost the session reports connected=false
\* with the reason as the last error through the status callback, and the
\* session goes on: the transport has a reconnection scheduled, and it makes
\* attempts until one succeeds or maxRetries of them were made, never more.
C25_DropReconnects ==
    /\ (oplog # <<>> /\ LastOp = "close") =>
           /\ sess.status.connected = FALSE
           /\ sess.status.error \in DropReasons
           /\ statusCalls # <<>>
           /\ statusCalls[Len(statusCalls)] = sess.status
           /\ sess.socket # Null
           /\ mgr.reconnecting /\ mgr.timer
    /\ LastClose > 0 =>
           /\ Cardinality(AttemptsSinceClose) <= config.maxRetries
           /\ (Exhausted /\ Ops({"open", "disconnect()"}) \cap (LastClose..Len(oplog)) = {})
                  => Cardinality(AttemptsSinceClose) = config.maxRetries

\* ------------------------------------------------------------------ C26
\* C26: with each reconnect attempt the transport makes, the counter in
\* status.reconnectAttempts goes up by one and the status callback is invoked
\* with it: while the transport is on its k-th consecutive attempt, and when
\* that attempt has failed, the reported counter is k; it never exceeds
\* maxRetries.
C26_AttemptsReported ==
    /\ (oplog # <<>> /\ LastOp = "reconnect_attempt") =>
           /\ sess.status.reconnectAttempts = mgr.attempts
           /\ statusCalls # <<>>
           /\ statusCalls[Len(statusCalls)].reconnectAttempts = mgr.attempts
    /\ (Len(oplog) >= 2 /\ LastOp = "error"
            /\ oplog[Len(oplog) - 1].op = "reconnect_attempt") =>
           statusCalls[Len(statusCalls)].reconnectAttempts
               = Cardinality({i \in Ops({"reconnect_attempt"}) :
                                 \A j \in i..Len(oplog) :
                                     oplog[j].op \in {"reconnect_attempt", "error"}})
    /\ \A i \in DOMAIN statusCalls :
           statusCalls[i].reconnectAttempts <= config.maxRetries

\* ------------------------------------------------------------------ the transport's options
\* src/src/server/index.ts 195-200: the options connect() hands to io(),
\* from ClientConfig.maxRetries and ClientConfig.reconnectInterval, both
\* optional numbers (src/src/cli/index.ts 87-93 fills them from --retries
\* and --interval).
DefaultReconnectionDelay == 1000

\* an optional number: configured with a value, or not configured
Configured(n) == [defined |-> TRUE, value |-> n]
NotConfigured == [defined |-> FALSE, value |-> 0]

Intervals == {0, 250, 500, 1000, 3000}

OptionConfigs ==
    [maxRetries : {NotConfigured} \cup {Configured(n) : n \in 0..MaxRetries},
     reconnectInterval : {NotConfigured} \cup {Configured(n) : n \in Intervals}]

\* x || d: d when x is undefined or 0
OrDefault(x, d) == IF ~x.defined \/ x.value = 0 THEN d ELSE x.value

ioOptions(cfg) ==
    [reconnection |-> TRUE,
     reconnectionAttempts |-> OrDefault(cfg.maxRetries, DefaultMaxRetries),
     reconnectionDelay |-> OrDefault(cfg.reconnectInterval, DefaultReconnectionDelay),
     timeout |-> 20000]

\* connect(): io(serverUrl, options) creates the transport with the options
IoCreate ==
    /\ mgr = MgrNone
    /\ mgr' = [state |-> "opening", opts |-> ioOptions(config), attempts |-> 0]
    /\ UNCHANGED <<config, sess, statusCalls, oplog>>
    /\ UNCHANGED <<hubVars, fwdVars, cliVars>>

\* the server is not reachable: the transport makes its next reconnection
\* attempt, as long as its options allow one
IoRetry ==
    /\ mgr # MgrNone
    /\ mgr.attempts < mgr.opts.reconnectionAttempts
    /\ mgr' = [mgr EXCEPT !.attempts = @ + 1]
    /\ UNCHANGED <<config, sess, statusCalls, oplog>>
    /\ UNCHANGED <<hubVars, fwdVars, cliVars>>

InitOptions ==
    /\ HubIdle /\ FwdIdle /\ CliIdle
    /\ config \in OptionConfigs
    /\ sess = SessInit
    /\ statusCalls = <<>>
    /\ mgr = MgrNone
    /\ oplog = <<>>

NextOptions == IoCreate \/ IoRetry

SpecOptions == InitOptions /\ [][NextOptions]_vars

\* ------------------------------------------------------------------ C27
\* C27: the transport is created with reconnectionAttempts = maxRetries and
\* reconnectionDelay = reconnectInterval whenever these are configured, 0
\* included, and with 5 and 1000 ms only when they are not; so it never
\* makes more than a configured maxRetries attempts.
C27_OptionsAsConfigured ==
    mgr # MgrNone =>
        /\ mgr.opts.reconnectionAttempts =
               IF config.maxRetries.defined THEN config.maxRetries.value
               ELSE DefaultMaxRetries
        /\ mgr.opts.reconnectionDelay =
               IF config.reconnectInterval.defined THEN config.reconnectInterval.value
               ELSE DefaultReconnectionDelay
        /\ config.maxRetries.defined => mgr.attempts <= config.maxRetries.value

\* ------------------------------------------------------------------ C28
\* the events handleEvent was given that the endpoint filter let through
Accepted == {i \in DOMAIN handled : ~Rejected(handled[i].endpoint)}

\* C28: with a forward target configured, every received event that the
\* endpoint filter accepts is forwarded: a forwardEvent call is started for
\* it, which POSTs the event to the targets in turn, one POST per target
\* once the call has returned, each carrying the event with its timestamp as
\* ISO-8601 text and the event id, source and endpoint as headers.
C28_AcceptedIsForwarded ==
    /\ Len(calls) = Cardinality(Accepted)
    /\ \A c \in DOMAIN calls :
           /\ posts[c] # <<>>
           /\ Resolved(c) => Len(posts[c]) = Len(endpoints)
           /\ \A k \in DOMAIN posts[c] :
                  /\ posts[c][k].url = endpoints[k]
                  /\ posts[c][k].data.timestamp = toISOString(DateAt(0))
                  /\ posts[c][k].data.id = calls[c].event.id
                  /\ posts[c][k].headers.eventId = calls[c].event.id
                  /\ posts[c][k].headers.source = calls[c].event.source
                  /\ posts[c][k].headers.endpoint = calls[c].event.endpoint

\* ------------------------------------------------------------------ WebhookReceiver with any callback
\* handleWebhook (src/src/server/websocket.ts 133-179) with its try/catch
\* spelled out, for a registered callback that may throw.  res is the
\* express Response: json() on a response that was already sent throws
\* ERR_HTTP_HEADERS_SENT and writes nothing.
ReceiverRequests ==
    { [path |-> p, method |-> "POST", ip |-> "10.0.0.1", body |-> b,
       headers |-> (N_content_type :> "application/json")]
        : p \in {P_github, P_stripe, P_other, P_api_users}, b \in {"push", Undefined} }

\* what the registered callback does when it is invoked
CallbackOutcomes == {"returns", "throws"}

ResponsesIn(out) == {k \in DOMAIN out : out[k].kind = "res"}

\* a response object that writes every json() it is asked for
resJson_resend(out, response) == Append(out, response)

\* res.status(n).json(body) after what the handler did so far
resJson(out, response) ==
    IF ResponsesIn(out) # {}
    THEN Append(out, [kind |-> "throw", error |-> "ERR_HTTP_HEADERS_SENT"])
    ELSE Append(out, response)

handleWebhookWith(req, id, now, cb) ==
    LET source == OrElse(reqGet(req, <<"X","-","F","o","r","w","a","r","d","e","d","-","F","o","r">>),
                         OrElse(req.ip, "unknown"))
        userAgent == reqGet(req, <<"U","s","e","r","-","A","g","e","n","t">>)
        headers == sanitizeHeaders(req.headers)
        event == createWebhookEvent(source, req.path, headers, req.body, req.method,
                                    source, userAgent, id, now)
        failure == [kind |-> "res", status |-> 500, success |-> FALSE,
                    error |-> "Internal server error"]
    IN  IF req.body = Undefined
        THEN resJson(<<>>, failure)
        ELSE LET acked == resJson(<<>>, [kind |-> "res", status |-> 200, success |-> TRUE,
                                         eventId |-> event.id,
                                         timestamp |-> toISOString(event.timestamp)])
                 called == Append(acked, [kind |-> "callback", event |-> event,
                                          threw |-> (cb = "throws")])
             IN  IF cb = "throws" THEN resJson(called, failure) ELSE called

ReceiveWebhook(req, cb) ==
    /\ Len(http) < MaxRequests
    /\ http' = Append(http, [req |-> req, out |-> handleWebhookWith(req, nextId, clock, cb)])
    /\ nextId' = nextId + 1
    /\ UNCHANGED <<sockets, pushed, clientSock, stats, clock>>
    /\ UNCHANGED <<fwdVars, cliVars, sessVars>>

NextReceiver == \E req \in ReceiverRequests, cb \in CallbackOutcomes : ReceiveWebhook(req, cb)

SpecReceiver == Init /\ [][NextReceiver]_vars

\* ------------------------------------------------------------------ C29
\* the handleWebhook calls whose callback threw
ThrowingCalls ==
    {i \in DOMAIN http : \E k \in DOMAIN http[i].out :
        http[i].out[k].kind = "callback" /\ http[i].out[k].threw}

\* C29: every handled POST is answered with exactly one response, a 200 or a
\* 500; when the callback throws after the 200 was sent, the 200 stays the
\* only response of that request.
C29_OneResponse ==
    \A i \in DOMAIN http :
        /\ Cardinality(ResponsesIn(http[i].out)) = 1
        /\ \A k \in ResponsesIn(http[i].out) :
               /\ http[i].out[k].status \in {200, 500}
               /\ i \in ThrowingCalls => http[i].out[k].status = 200

\* a POST was acknowledged with 200, its callback threw, and the catch
\* block's json() found the response already sent
C29_Witness ==
    \E i \in ThrowingCalls :
        /\ Len(http[i].out) = 3
        /\ http[i].out[1].kind = "res" /\ http[i].out[1].status = 200
        /\ http[i].out[3].kind = "throw"

StartForward(event) ==
    /\ calls = <<>>
    /\ LET call == forwardLoop(NewCall(event) @@ [eps |-> endpoints, live |-> TRUE,
                                                  initial |-> endpoints],
                               endpoints)
       IN  /\ calls' = <<call>>
           /\ posts' = <<PostsOf(call)>>
    /\ UNCHANGED <<endpoints, edits>>
    /\ UNCHANGED <<hubVars, cliVars, sessVars>>

\* the POST call c waits for settles; the iterator steps on the array it holds
CompleteOn(c, outcome) ==
    /\ calls[c].state = "inflight"
    /\ LET r == forwardToEndpoint(calls[c].event, calls[c].target, outcome)
           call == forwardLoop([calls[c] EXCEPT !.results = Append(@, r.result),
                                                !.outcomes = Append(@, outcome),
                                                !.idx = @ + 1], calls[c].eps)
       IN  /\ calls' = [calls EXCEPT ![c] = call]
           /\ posts' = [posts EXCEPT ![c] = @ \o PostsOf(call)]
    /\ UNCHANGED <<endpoints, edits>>
    /\ UNCHANGED <<hubVars, cliVars, sessVars>>

\* a mutator call: push and splice are seen by the loops iterating the
\* array, an assignment of a new array is not
EditDuring(op, arg, after) ==
    /\ Len(edits) < MaxEdits
    /\ endpoints' = after
    /\ edits' = Append(edits, [op |-> op, arg |-> arg,
                               before |-> getEndpoints, after |-> after])
    /\ calls' = [c \in DOMAIN calls |->
                    IF op = "setEndpoints" THEN [calls[c] EXCEPT !.live = FALSE]
                    ELSE IF calls[c].live THEN [calls[c] EXCEPT !.eps = after]
                    ELSE calls[c]]
    /\ UNCHANGED posts
    /\ UNCHANGED <<hubVars, cliVars, sessVars>>

InitFwdEdits ==
    /\ HubIdle /\ CliIdle /\ SessIdle
    /\ endpoints \in TargetLists
    /\ calls = <<>>
    /\ posts = <<>>
    /\ edits = <<>>

NextFwdEdits ==
    \/ StartForward(TypedEvent)
    \/ \E c \in DOMAIN calls, outcome \in Outcomes : CompleteOn(c, outcome)
    \/ \E t \in EditTargets : EditDuring("addEndpoint", <<t>>, addEndpoint(endpoints, t))
    \/ \E t \in EditTargets : EditDuring("removeEndpoint", <<t>>, removeEndpoint(endpoints, t))
    \/ \E list \in SetLists : EditDuring("setEndpoints", list, setEndpoints(list))

SpecFwdEdits == InitFwdEdits /\ [][NextFwdEdits]_vars

\* ------------------------------------------------------------------ C31
\* the targets of the results call c has so far, in order
ResultTargets(c) == [i \in DOMAIN calls[c].results |-> calls[c].results[i].endpoint]

\* C31: the results of a forwardEvent call follow the targets that were
\* configured when the call started, whatever addEndpoint, removeEndpoint or
\* setEndpoints does while the call is suspended: at any time the results
\* are the first targets of that list in order, the POST in flight goes to
\* the next one, and the call returns with exactly one result per target of
\* that list.
C31_ResultsFollowStartTargets ==
    \A c \in DOMAIN calls :
        LET n == Len(calls[c].results)
        IN  /\ n <= Len(calls[c].initial)
            /\ ResultTargets(c) = SubSeq(calls[c].initial, 1, n)
            /\ calls[c].state = "inflight" =>
                   /\ n < Len(calls[c].initial)
                   /\ calls[c].target = calls[c].initial[n + 1]
            /\ Resolved(c) => n = Len(calls[c].initial)

\* ------------------------------------------------------------------ connect() called again
\* WebSocketClient with connect() and disconnect() called in any order
\* (src/src/server/index.ts 190-285).  connect() does not look at
\* this.socket: every call has io() create a transport (a second io() for
\* the namespace in use gets a Manager of its own), registers the handlers
\* on it and overwrites this.socket.  Here mgr is the list of the transports
\* created, sess.socket the index of the one this.socket refers to (0: null),
\* and handled the invocations of the event callback.
MaxTransports == 3  \* connect() calls in one run

LiveTransports == {i \in DOMAIN mgr : mgr[i].state \in {"opening", "open"}}

ConnectAgain ==
    /\ Len(mgr) < MaxTransports
    /\ mgr' = Append(mgr, [state |-> "opening"])
    /\ sess' = [sess EXCEPT !.socket = Len(mgr) + 1, !.promise = "pending"]
    /\ oplog' = Append(oplog, [op |-> "connect()", error |-> sess.status.error])
    /\ UNCHANGED <<config, statusCalls>>
    /\ UNCHANGED <<hubVars, fwdVars, cliVars>>

\* transport i opens: its Socket emits connect
Opened(i) ==
    /\ mgr[i].state = "opening"
    /\ LET w == OnConnect([sess |-> sess, out |-> statusCalls,
                           mgr |-> [mgr EXCEPT ![i].state = "open"], log |-> oplog])
       IN  /\ sess' = w.sess
           /\ statusCalls' = w.out
           /\ mgr' = w.mgr
           /\ oplog' = Append(oplog, [op |-> "open", error |-> w.sess.status.error])
    /\ UNCHANGED config
    /\ UNCHANGED <<hubVars, fwdVars, cliVars>>

\* disconnect(): closes the transport this.socket refers to, and no other
DisconnectCurrent ==
    /\ sess.socket # 0
    /\ LET i  == sess.socket
           w0 == [sess |-> sess, out |-> statusCalls,
                  mgr |-> [mgr EXCEPT ![i].state = "closed"], log |-> oplog]
           w1 == IF mgr[i].state = "open"
                 THEN OnDisconnect(w0, ClientDisconnectReason)
                 ELSE w0
           w2 == updateStatus([w1 EXCEPT !.sess.socket = 0,
                                         !.sess.status.connected = FALSE])
       IN  /\ sess' = w2.sess
           /\ statusCalls' = w2.out
           /\ mgr' = w2.mgr
           /\ oplog' = Append(oplog, [op |-> "disconnect()", error |-> w2.sess.status.error])
    /\ UNCHANGED config
    /\ UNCHANGED <<hubVars, fwdVars, cliVars>>

\* the events the callback was invoked with so far
DeliveredIds == {handled[k].id : k \in DOMAIN handled}

\* transports 1..n that are open, in the order they were created
RECURSIVE OpenUpTo(_)
OpenUpTo(n) ==
    IF n = 0 THEN <<>>
    ELSE IF mgr[n].state = "open" THEN Append(OpenUpTo(n - 1), n)
    ELSE OpenUpTo(n - 1)

\* the Hub broadcasts one event: every open transport receives the
\* 'webhook' packet and its handler invokes the event callback
Deliver ==
    /\ \E i \in DOMAIN mgr : mgr[i].state = "open"
    /\ Cardinality(DeliveredIds) < MaxHandled
    /\ LET id == Cardinality(DeliveredIds) + 1
           via == OpenUpTo(Len(mgr))
       IN  handled' = handled \o [k \in DOMAIN via |-> [id |-> id, via |-> via[k]]]
    /\ UNCHANGED <<subscribeEndpoints, cliAlive>>
    /\ UNCHANGED <<hubVars, fwdVars, sessVars>>

InitConnects ==
    /\ HubIdle /\ FwdIdle /\ CliIdle
    /\ config = [maxRetries |-> 0]
    /\ sess = [SessInit EXCEPT !.socket = 0]
    /\ statusCalls = <<>>
    /\ mgr = <<>>
    /\ oplog = <<>>

NextConnects ==
    \/ ConnectAgain
    \/ \E i \in DOMAIN mgr : Opened(i)
    \/ DisconnectCurrent
    \/ Deliver

SpecConnects == InitConnects /\ [][NextConnects]_vars

\* ------------------------------------------------------------------ C32
\* C32: whatever connect() and disconnect() calls were made, the session has
\* at most one transport that is opening or open, that transport is the one
\* this.socket refers to, and every broadcast event reached the event
\* callback at most once.
C32_OneLiveTransport ==
    /\ Cardinality(LiveTransports) <= 1
    /\ \A i \in LiveTransports : sess.socket = i
    /\ \A k1 \in DOMAIN handled, k2 \in DOMAIN handled :
           handled[k1].id = handled[k2].id => k1 = k2
====
